---- MODULE Spec2Model ----
(***************************************************************************)
(* Model of the benchmark store and the performance-modeling service of    *)
(* together-benchmark-model (backend/src: modelingService, benchmark       *)
(* service, routes, db).                                                   *)
(*                                                                         *)
(* Numbers.  A JavaScript number is modelled as an exact rational <<n, d>> *)
(* with d > 0 in lowest terms; SQL NULL / JS undefined is Null == <<0,0>>. *)
(* The closed-form computations (AVG, averaging, fitLinearModel, the       *)
(* mechanistic E2E formula, the confidence distance) are carried out       *)
(* exactly.  The Gauss-Seidel solver keeps its coefficients on a grid of   *)
(* 1/Scale, rounding after every update, as a finite-precision stand-in    *)
(* for the rounding of double arithmetic.                                  *)
(***************************************************************************)
EXTENDS Integers, Sequences, FiniteSets, TLC

----------------------------------------------------------------------------
(* Rational arithmetic *)

Abs(i) == IF i < 0 THEN -i ELSE i

RECURSIVE Gcd(_, _)
Gcd(a, b) == IF b = 0 THEN a ELSE Gcd(b, a % b)

(* the rational n/d (d # 0) in lowest terms with a positive denominator *)
Q(n, d) ==
    LET g == Gcd(Abs(n), Abs(d))
        s == IF d < 0 THEN -1 ELSE 1
    IN  <<(s * n) \div g, (s * d) \div g>>

Num(i) == <<i, 1>>
Zero == <<0, 1>>
Null == <<0, 0>>

IsNull(x) == x[2] = 0

(* Arithmetic on numbers; an operand that is no number gives no number.
   Sums and comparisons go over the least common denominator and products
   cancel crosswise, which keeps the intermediate integers small. *)
Add(x, y) ==
    IF IsNull(x) \/ IsNull(y) THEN Null
    ELSE Q(x[1] * (y[2] \div Gcd(x[2], y[2])) + y[1] * (x[2] \div Gcd(x[2], y[2])),
           (x[2] \div Gcd(x[2], y[2])) * y[2])
Sub(x, y) == IF IsNull(y) THEN Null ELSE Add(x, <<-y[1], y[2]>>)
Mul(x, y) ==
    IF IsNull(x) \/ IsNull(y) THEN Null
    ELSE Q(Q(x[1], y[2])[1] * Q(y[1], x[2])[1], Q(x[1], y[2])[2] * Q(y[1], x[2])[2])
Div(x, y) == IF IsNull(y) \/ y[1] = 0 THEN Null ELSE Mul(x, Q(y[2], y[1]))
Lt(x, y) ==
    /\ ~IsNull(x) /\ ~IsNull(y)
    /\ x[1] * (y[2] \div Gcd(x[2], y[2])) < y[1] * (x[2] \div Gcd(x[2], y[2]))
Leq(x, y) == ~IsNull(x) /\ ~IsNull(y) /\ ~Lt(y, x)
AbsQ(x) == <<Abs(x[1]), x[2]>>

(* Math.max(0, x) *)
Max0(x) == IF x[1] < 0 THEN Zero ELSE x

(* Math.round(x): the nearest integer, halves rounded up *)
MathRound(x) == (2 * x[1] + x[2]) \div (2 * x[2])

(* JS `v || fallback` on a number or undefined/null: 0 and null are falsy *)
OrElse(v, fallback) == IF IsNull(v) \/ v[1] = 0 THEN fallback ELSE v

(* the sum of a sequence of numbers, the halves summed apart *)
RECURSIVE SumSeq(_)
SumSeq(s) ==
    IF Len(s) = 0 THEN Zero
    ELSE IF Len(s) = 1 THEN s[1]
    ELSE Add(SumSeq(SubSeq(s, 1, Len(s) \div 2)),
             SumSeq(SubSeq(s, (Len(s) \div 2) + 1, Len(s))))

(* a sequence given by a function on 1..n, in explicit form: TLC otherwise
   evaluates the function's body anew at every application *)
Tup(f) == SubSeq(f, 1, Len(f))

SeqMap(Op(_), s) == Tup([i \in 1..Len(s) |-> Op(s[i])])

(* Body applied to v, with v evaluated first: the statements of the code run
   in their order, where TLC would evaluate a definition only at its first use,
   inside the evaluation that asks for it *)
Then(v, Body(_)) == IF v = v THEN Body(v) ELSE Body(v)

----------------------------------------------------------------------------
(* Data: the benchmarks table and the observations read from it *)

TtftMetrics == <<"ttft_mean", "ttft_stdev", "ttft_p05", "ttft_p50", "ttft_p80",
                 "ttft_p95", "ttft_p99", "ttft_p999">>
TpsMetrics == <<"user_tps_mean", "user_tps_stdev", "user_tps_p05", "user_tps_p50",
                "user_tps_p80", "user_tps_p95", "user_tps_p99", "user_tps_p999">>
E2eRegressionMetrics == <<"e2e_stdev", "e2e_p05", "e2e_p50", "e2e_p80", "e2e_p95",
                          "e2e_p99", "e2e_p999">>

Range(s) == {s[i] : i \in 1..Len(s)}

(* the 25 keys of ModelingResult.predictions *)
Metrics == Range(TtftMetrics) \cup Range(TpsMetrics) \cup {"e2e_mean"}
             \cup Range(E2eRegressionMetrics) \cup {"throughput"}

(* the columns named by the INSERT of uploadBenchmark, as metrics
   (summary_job_level_tps is read back as throughput) *)
InsertedMetrics ==
    {"ttft_mean", "ttft_stdev", "ttft_p50", "ttft_p95", "ttft_p99",
     "user_tps_mean", "user_tps_stdev", "user_tps_p50", "user_tps_p95", "user_tps_p99",
     "e2e_mean", "e2e_stdev", "e2e_p50", "e2e_p95", "e2e_p99", "throughput"}

(* AVG(col) with a NULL counted as 0 *)
SqlAvg_NullAsZero(vals) ==
    Div(SumSeq(SeqMap(LAMBDA v : IF IsNull(v) THEN Zero ELSE v, vals)), Num(Len(vals)))

(* AVG(col): the mean of the non-NULL values, NULL when there is none *)
SqlAvg(vals) ==
    LET nn == SelectSeq(vals, LAMBDA v : ~IsNull(v))
    IN  IF nn = <<>> THEN Null ELSE Div(SumSeq(nn), Num(Len(nn)))

(* SQL ordering of REAL values, NULL first *)
SqlLt(x, y) == IF IsNull(x) THEN ~IsNull(y) ELSE (~IsNull(y) /\ Lt(x, y))

GroupKey(r) == <<r.benchmark_id, r.input_avg_len, r.output_avg_len, r.traffic_level>>

(* the rows of a group (they share a benchmark_id), in insertion order *)
RECURSIVE RowsByLine(_)
RowsByLine(S) ==
    IF S = {} THEN <<>>
    ELSE LET m == CHOOSE x \in S : \A y \in S : x.line <= y.line
         IN  <<m>> \o RowsByLine(S \ {m})

(* ORDER BY input_avg_len, output_avg_len, traffic_level; groups equal on all
   three (they differ in benchmark_id) are taken in benchmark_id order, so that
   the result is a function of the table *)
ObsBefore(a, b) ==
    \/ SqlLt(a.input_avg_len, b.input_avg_len)
    \/ /\ a.input_avg_len = b.input_avg_len
       /\ \/ SqlLt(a.output_avg_len, b.output_avg_len)
          \/ /\ a.output_avg_len = b.output_avg_len
             /\ \/ SqlLt(a.traffic_level, b.traffic_level)
                \/ /\ a.traffic_level = b.traffic_level
                   /\ a.benchmark_id < b.benchmark_id

RECURSIVE OrderObs(_)
OrderObs(S) ==
    IF S = {} THEN <<>>
    ELSE LET m == CHOOSE x \in S : \A y \in S : y = x \/ ObsBefore(x, y)
         IN  <<m>> \o OrderObs(S \ {m})

(* the aggregation query of predictPerformance: one observation per
   (benchmark_id, input_avg_len, output_avg_len, traffic_level) group of the
   model's rows, each metric the AVG over the group *)
FetchObservations(table, model) ==
    LET rows == {r \in table : r.provider_model = model}
        keys == {GroupKey(r) : r \in rows}
        group(k) == RowsByLine({r \in rows : GroupKey(r) = k})
        obs(k) == [benchmark_id |-> k[1], input_avg_len |-> k[2],
                   output_avg_len |-> k[3], traffic_level |-> k[4],
                   val |-> [m \in Metrics |->
                              SqlAvg(SeqMap(LAMBDA r : r.col[m], group(k)))]]
    IN  OrderObs({obs(k) : k \in keys})

----------------------------------------------------------------------------
(* ModelingService: the fitters *)

(* (d[metric] as number) || 0 *)
MetricOf(d, metric) == OrElse(d.val[metric], Zero)

(* Math.abs(x) > 1e-10.  Every rational of the model has a denominator below
   2^31 < 10^10, so a non-zero one exceeds 1e-10 in magnitude. *)
AboveEpsilon(x) == x[1] # 0

(* the mean of a sequence of numbers: values.reduce((a, b) => a + b, 0) / n *)
MeanOf(vals) == Div(SumSeq(vals), Num(Len(vals)))

(* performSimpleAveraging leaving missing values out of the mean *)
performSimpleAveraging_SkipMissing(benchmarks) ==
    [metric \in Metrics |->
        LET present == SelectSeq(SeqMap(LAMBDA b : b.val[metric], benchmarks),
                                 LAMBDA v : ~IsNull(v))
        IN  IF Len(present) = 0 THEN Zero ELSE MeanOf(present)]

performSimpleAveraging(benchmarks) ==
    [metric \in Metrics |->
        MeanOf(SeqMap(LAMBDA b : MetricOf(b, metric), benchmarks))]

(* the column of a metric over the observations, as the fitters read it *)
Column(data, metric) == SeqMap(LAMBDA p : MetricOf(p, metric), data)

(* the sum of the products c[i] * f[i] *)
Dot(c, f) == SumSeq(Tup([i \in 1..Len(c) |-> Mul(c[i], f[i])]))

(* fitLinearModel, first loop: the means of input_avg_len, output_avg_len
   and the metric over the points *)
LinearMeans(data, targetMetric) ==
    [meanX1 |-> MeanOf(SeqMap(LAMBDA p : p.input_avg_len, data)),
     meanX2 |-> MeanOf(SeqMap(LAMBDA p : p.output_avg_len, data)),
     meanY |-> MeanOf(Column(data, targetMetric))]

(* fitLinearModel, second loop: the sums of products of the deviations dx1,
   dx2 and dy from the means *)
LinearMoments(data, targetMetric, mean) ==
    LET dx1 == SeqMap(LAMBDA p : Sub(p.input_avg_len, mean.meanX1), data)
        dx2 == SeqMap(LAMBDA p : Sub(p.output_avg_len, mean.meanX2), data)
        dy == SeqMap(LAMBDA p : Sub(MetricOf(p, targetMetric), mean.meanY), data)
    IN  [varX1 |-> Dot(dx1, dx1), varX2 |-> Dot(dx2, dx2), covX1X2 |-> Dot(dx1, dx2),
         covX1Y |-> Dot(dx1, dy), covX2Y |-> Dot(dx2, dy)]

(* the slopes with a flat plane for a singular system *)
LinearSlopes_FlatWhenSingular(m, denom) ==
    IF AboveEpsilon(denom)
    THEN [inputCoeff |-> Div(Sub(Mul(m.covX1Y, m.varX2), Mul(m.covX2Y, m.covX1X2)), denom),
          outputCoeff |-> Div(Sub(Mul(m.covX2Y, m.varX1), Mul(m.covX1Y, m.covX1X2)), denom)]
    ELSE [inputCoeff |-> Zero, outputCoeff |-> Zero]

(* fitLinearModel, the slopes: by Cramer's rule when denom is above 1e-10,
   otherwise each slope from its own feature alone *)
LinearSlopes(m, denom) ==
    IF AboveEpsilon(denom)
    THEN [inputCoeff |-> Div(Sub(Mul(m.covX1Y, m.varX2), Mul(m.covX2Y, m.covX1X2)), denom),
          outputCoeff |-> Div(Sub(Mul(m.covX2Y, m.varX1), Mul(m.covX1Y, m.covX1X2)), denom)]
    ELSE [inputCoeff |-> IF Lt(Zero, m.varX1) THEN Div(m.covX1Y, m.varX1) ELSE Zero,
          outputCoeff |-> IF Lt(Zero, m.varX2) THEN Div(m.covX2Y, m.varX2) ELSE Zero]

LinearCoefficients(mean, slope) ==
    [intercept |-> Sub(Sub(mean.meanY, Mul(slope.inputCoeff, mean.meanX1)),
                       Mul(slope.outputCoeff, mean.meanX2)),
     inputCoeff |-> slope.inputCoeff,
     outputCoeff |-> slope.outputCoeff]

LinearFit(mean, m) ==
    LinearCoefficients(mean,
        LinearSlopes(m, Sub(Mul(m.varX1, m.varX2), Mul(m.covX1X2, m.covX1X2))))

LinearFitAbout(data, targetMetric, mean) ==
    LinearFit(mean, LinearMoments(data, targetMetric, mean))

fitLinearModel(data, targetMetric) ==
    LinearFitAbout(data, targetMetric, LinearMeans(data, targetMetric))

(* Precision of the iterative solver: coefficients are multiples of 1/Scale *)
Scale == 100

(* for (let iter = 0; iter < 100; iter++) *)
MaxIterations == 100

Lcm(a, b) == (a * b) \div Gcd(a, b)

(* the least common multiple of a set of positive integers *)
RECURSIVE LcmOf(_)
LcmOf(S) ==
    IF S = {} THEN 1
    ELSE Lcm(CHOOSE d \in S : TRUE, LcmOf(S \ {CHOOSE d \in S : TRUE}))

(* the least common denominator of a sequence of numbers *)
LcmDen(s) == LcmOf({s[i][2] : i \in 1..Len(s)})

(* x as an integer multiple of 1/d, where the denominator of x divides d *)
Times(x, d) == x[1] * (d \div x[2])

(* a / b rounded to the nearest integer, b > 0 *)
RoundDiv(a, b) == (2 * a + b) \div (2 * b)

RECURSIVE IntSum(_)
IntSum(s) ==
    IF Len(s) = 0 THEN 0
    ELSE IF Len(s) = 1 THEN s[1]
    ELSE IntSum(SubSeq(s, 1, Len(s) \div 2))
           + IntSum(SubSeq(s, (Len(s) \div 2) + 1, Len(s)))

(* `coefficients[i] = sum / XtX[i][i]` with
   sum = Xty[i] - (the sum over j # i of XtX[i][j] * coefficients[j]),
   kept as it is when the diagonal entry is not above 1e-10 *)
Update(XtX, Xty, coeffs, i) ==
    IF XtX[i][i] # 0
    THEN [coeffs EXCEPT ![i] =
            RoundDiv(Scale * Xty[i]
                       - IntSum(Tup([j \in 1..Len(coeffs) |->
                                   IF j = i THEN 0 ELSE XtX[i][j] * coeffs[j]])),
                     XtX[i][i])]
    ELSE coeffs

(* the updates of coefficients lo..hi in their order: those of the first half
   of the range, then those of the second on the result *)
RECURSIVE SweepRange(_, _, _, _, _)
SweepRange(XtX, Xty, coeffs, lo, hi) ==
    IF lo = hi THEN Update(XtX, Xty, coeffs, lo)
    ELSE Then(SweepRange(XtX, Xty, coeffs, lo, (lo + hi) \div 2),
              LAMBDA c : SweepRange(XtX, Xty, c, ((lo + hi) \div 2) + 1, hi))

(* one pass of `for (let i = 0; i < m; i++)` *)
Sweep(XtX, Xty, coeffs) == SweepRange(XtX, Xty, coeffs, 1, Len(coeffs))

(* one iteration of `for (let iter = 0; iter < 100; iter++)` on a pair
   <<coeffs, settled>>; once a pass has changed no coefficient (settled), the
   remaining passes change none either *)
Iteration(XtX, Xty, st) ==
    IF st[2] THEN st
    ELSE LET next == Sweep(XtX, Xty, st[1])
         IN  <<next, next = st[1]>>

(* count iterations in a row (count >= 1), the second half run on the result
   of the first *)
RECURSIVE Iterations(_, _, _, _)
Iterations(XtX, Xty, st, count) ==
    IF count = 1 THEN Iteration(XtX, Xty, st)
    ELSE LET half == Iterations(XtX, Xty, st, count \div 2)
         IN  IF half[2] THEN half
             ELSE Iterations(XtX, Xty, half, count - (count \div 2))

GaussSeidel(XtX, Xty, coeffs) == Iterations(XtX, Xty, <<coeffs, FALSE>>, MaxIterations)[1]

(* the entries of a matrix, row after row *)
Entries(X) ==
    Tup([e \in 1..(Len(X) * Len(X[1])) |->
            X[((e - 1) \div Len(X[1])) + 1][((e - 1) % Len(X[1])) + 1]])

(* X'X and X'y of `for (let i...) for (let j...) for (let k...)`, from the
   integer matrices Xi = dx * X and yi = dy * y: dy * Xi'Xi and dx * Xi'yi
   are integer matrices of the same system, and the update of a coefficient
   is unchanged by scaling its row *)
NormalEquations(Xi, yi, dx, dy) ==
    [XtX |-> Tup([i \in 1..Len(Xi[1]) |-> Tup([j \in 1..Len(Xi[1]) |->
                dy * IntSum(Tup([k \in 1..Len(Xi) |-> Xi[k][i] * Xi[k][j]]))])]),
     Xty |-> Tup([i \in 1..Len(Xi[1]) |->
                dx * IntSum(Tup([k \in 1..Len(Xi) |-> Xi[k][i] * yi[k]]))])]

(* X and y over the common denominators dx and dy *)
Integerised(X, y, dx, dy) ==
    NormalEquations(SeqMap(LAMBDA row : SeqMap(LAMBDA v : Times(v, dx), row), X),
                    SeqMap(LAMBDA v : Times(v, dy), y), dx, dy)

(* solvePolynomial(X, y): the normal equations are formed, then solved from
   coefficients 0; the coefficients are integer multiples of 1/Scale *)
solvePolynomial(X, y) ==
    Then(Integerised(X, y, LcmDen(Entries(X)), LcmDen(y)),
         LAMBDA eq :
            Then(GaussSeidel(eq.XtX, eq.Xty, SeqMap(LAMBDA v : 0, eq.Xty)),
                 LAMBDA coeffs : SeqMap(LAMBDA c : Q(c, Scale), coeffs)))

(* the rows of the design matrices *)
Features2D(x1, x2) == <<Num(1), x1, x2, Mul(x1, x1), Mul(x2, x2), Mul(x1, x2)>>

Features3D(x1, x2, x3) ==
    <<Num(1), x1, x2, x3, Mul(x1, x1), Mul(x2, x2), Mul(x3, x3),
      Mul(x1, x2), Mul(x1, x3), Mul(x2, x3)>>

FeaturesLinear3D(x1, x2, x3) == <<Num(1), x1, x2, x3>>

Half == <<1, 2>>

(* (point.traffic_level as number) || 0.5 *)
TrafficOf(point) == OrElse(point.traffic_level, Half)

(* coefficient vectors <<intercept, x1, x2, x1_sq, x2_sq, x1x2>> *)
fitPolynomialModel(data, targetMetric) ==
    solvePolynomial(
        SeqMap(LAMBDA p : Features2D(p.input_avg_len, p.output_avg_len), data),
        SeqMap(LAMBDA p : MetricOf(p, targetMetric), data))

(* <<intercept, x1, x2, x3, x1_sq, x2_sq, x3_sq, x1x2, x1x3, x2x3>> *)
fitPolynomialModel3D(data, targetMetric) ==
    solvePolynomial(
        SeqMap(LAMBDA p : Features3D(p.input_avg_len, p.output_avg_len, TrafficOf(p)),
               data),
        SeqMap(LAMBDA p : MetricOf(p, targetMetric), data))

(* <<intercept, x1Coeff, x2Coeff, x3Coeff>> *)
fitLinearModel3D(data, targetMetric) ==
    solvePolynomial(
        SeqMap(LAMBDA p : FeaturesLinear3D(p.input_avg_len, p.output_avg_len,
                                           TrafficOf(p)), data),
        SeqMap(LAMBDA p : MetricOf(p, targetMetric), data))

----------------------------------------------------------------------------
(* ModelingService: predictions *)

IsFalsy(x) == IsNull(x) \/ x[1] = 0

(* safeDivide of calculateE2EMeanMechanistically; a quotient of two finite
   numbers with a positive denominator is finite *)
safeDivide(numerator, denominator, fallback) ==
    IF IsFalsy(denominator) \/ Leq(denominator, Zero) THEN fallback
    ELSE Div(numerator, denominator)

(* the predictions with e2e_mean set *)
WithE2EMean(predictions, e2e) ==
    [m \in (DOMAIN predictions) \cup {"e2e_mean"} |->
        IF m = "e2e_mean" THEN e2e ELSE predictions[m]]

(* `if (!isFinite(e2eMean) || e2eMean < 0) return ttftMean + outputTokens * 10` *)
CheckedE2E(e2e, ttftMean, outputTokens) ==
    IF Lt(e2e, Zero) THEN Add(ttftMean, Mul(outputTokens, Num(10))) ELSE e2e

(* calculateE2EMeanMechanistically with the generation time left in seconds *)
calculateE2EMeanMechanistically_Seconds(predictions, outputTokens) ==
    WithE2EMean(predictions,
        CheckedE2E(Add(predictions["ttft_mean"],
                       safeDivide(outputTokens, predictions["user_tps_mean"],
                                  Mul(outputTokens, Num(10)))),
                   predictions["ttft_mean"], outputTokens))

(* predictions with e2e_mean set from ttft_mean and user_tps_mean:
   generationTimeMs = safeDivide(outputTokens, userTpsMean, outputTokens * 10) * 1000 *)
calculateE2EMeanMechanistically(predictions, outputTokens) ==
    WithE2EMean(predictions,
        CheckedE2E(Add(predictions["ttft_mean"],
                       Mul(safeDivide(outputTokens, predictions["user_tps_mean"],
                                      Mul(outputTokens, Num(10))), Num(1000))),
                   predictions["ttft_mean"], outputTokens))

(* the metrics the regression loops assign: ttftMetrics, tpsMetrics,
   e2eMetricsToPredict and throughput *)
RegressedMetrics(use3D) ==
    Range(TtftMetrics) \cup Range(TpsMetrics) \cup Range(E2eRegressionMetrics)
      \cup {"throughput"} \cup (IF use3D THEN {"e2e_mean"} ELSE {})

(* the metrics of a set whose column is y; a fit reads the observations only
   through the column of its metric, so metrics with equal columns share one
   evaluation of the fit *)
SomeMetricWith(data, y) == CHOOSE m \in Metrics : Column(data, m) = y

Columns(data) == {Column(data, m) : m \in Metrics}

(* the fit recorded for a column in a set of <<column, coefficients>> pairs *)
FitFor(fits, y) == (CHOOSE p \in fits : p[1] = y)[2]

(* Math.max(0, intercept + inputCoeff * targetInput + outputCoeff * targetOutput) *)
ClampedPlane(coeffs, targetInput, targetOutput) ==
    Max0(Add(Add(coeffs.intercept, Mul(coeffs.inputCoeff, targetInput)),
             Mul(coeffs.outputCoeff, targetOutput)))

(* the regressed metrics, each at Math.max(0, coefficients . features) *)
ClampedPredictions(benchmarks, fits, features, use3D) ==
    [metric \in RegressedMetrics(use3D) |->
        Max0(Dot(FitFor(fits, Column(benchmarks, metric)), features))]

Linear2DPredictions(benchmarks, fits, targetInput, targetOutput) ==
    [metric \in RegressedMetrics(FALSE) |->
        ClampedPlane(FitFor(fits, Column(benchmarks, metric)), targetInput, targetOutput)]

(* performMultivariateInterpolation with e2e_mean regressed from its stored
   column in the two-feature mode as well, instead of derived from ttft_mean
   and user_tps_mean *)
performMultivariateInterpolation_RegressedE2E(benchmarks, targetInput, targetOutput, targetTraffic) ==
    IF ~IsNull(targetTraffic)
    THEN ClampedPredictions(benchmarks,
             {<<y, fitLinearModel3D(benchmarks, SomeMetricWith(benchmarks, y))>> :
                 y \in Columns(benchmarks)},
             FeaturesLinear3D(targetInput, targetOutput, targetTraffic), TRUE)
    ELSE LET fits == {<<y, fitLinearModel(benchmarks, SomeMetricWith(benchmarks, y))>> :
                         y \in Columns(benchmarks)}
         IN  [metric \in RegressedMetrics(TRUE) |->
                 ClampedPlane(FitFor(fits, Column(benchmarks, metric)),
                              targetInput, targetOutput)]

performMultivariateInterpolation(benchmarks, targetInput, targetOutput, targetTraffic) ==
    IF ~IsNull(targetTraffic)
    THEN ClampedPredictions(benchmarks,
             {<<y, fitLinearModel3D(benchmarks, SomeMetricWith(benchmarks, y))>> :
                 y \in Columns(benchmarks)},
             FeaturesLinear3D(targetInput, targetOutput, targetTraffic), TRUE)
    ELSE calculateE2EMeanMechanistically(
             Linear2DPredictions(benchmarks,
                 {<<y, fitLinearModel(benchmarks, SomeMetricWith(benchmarks, y))>> :
                     y \in Columns(benchmarks)},
                 targetInput, targetOutput),
             targetOutput)

performPolynomialInterpolation(benchmarks, targetInput, targetOutput, targetTraffic) ==
    IF ~IsNull(targetTraffic)
    THEN ClampedPredictions(benchmarks,
             {<<y, fitPolynomialModel3D(benchmarks, SomeMetricWith(benchmarks, y))>> :
                 y \in Columns(benchmarks)},
             Features3D(targetInput, targetOutput, targetTraffic), TRUE)
    ELSE calculateE2EMeanMechanistically(
             ClampedPredictions(benchmarks,
                 {<<y, fitPolynomialModel(benchmarks, SomeMetricWith(benchmarks, y))>> :
                     y \in Columns(benchmarks)},
                 Features2D(targetInput, targetOutput), FALSE),
             targetOutput)

Square(x) == Mul(x, x)

(* Math.max(x, y) *)
MaxQ(x, y) == IF Lt(x, y) THEN y ELSE x

(* Math.min(...s) and Math.max(...s) of a non-empty sequence *)
MinSeq(s) == CHOOSE x \in Range(s) : \A y \in Range(s) : Leq(x, y)

MaxSeq(s) == CHOOSE x \in Range(s) : \A y \in Range(s) : Leq(y, x)

(* the sum of (a[i] - b[i])^2 *)
SumSquaredDiff(a, b) ==
    SumSeq(Tup([i \in 1..Len(a) |-> Square(Sub(a[i], b[i]))]))

(* calculateR2: the value of the fitted model at each point *)
LinearValues(data, coeffs) ==
    SeqMap(LAMBDA d : Add(Add(coeffs.intercept, Mul(coeffs.inputCoeff, d.input_avg_len)),
                          Mul(coeffs.outputCoeff, d.output_avg_len)), data)

PolynomialValues(data, coeffs) ==
    SeqMap(LAMBDA d : Dot(coeffs, Features2D(d.input_avg_len, d.output_avg_len)), data)

(* 1 - ssRes / ssTot, at least 0, and 0 when ssTot is 0 *)
R2From(ssRes, ssTot) ==
    IF ssTot = Zero THEN Zero ELSE MaxQ(Zero, Sub(Num(1), Div(ssRes, ssTot)))

R2Of(yActual, yPredicted) ==
    R2From(SumSquaredDiff(yActual, yPredicted),
           SumSquaredDiff(yActual, SeqMap(LAMBDA v : MeanOf(yActual), yActual)))

calculateR2(data, metric, type) ==
    IF Len(data) < 2 THEN Zero
    ELSE IF type = "linear"
    THEN Then(fitLinearModel(data, metric),
              LAMBDA coeffs : R2Of(Column(data, metric), LinearValues(data, coeffs)))
    ELSE Then(fitPolynomialModel(data, metric),
              LAMBDA coeffs : R2Of(Column(data, metric), PolynomialValues(data, coeffs)))

(* the rule with both conditions required *)
IsLinear_Conjunction(linearR2, polyR2) ==
    Lt(Sub(polyR2, linearR2), <<1, 10>>) /\ Lt(<<17, 20>>, linearR2)

(* improvement < 0.1 || linearR2 > 0.85 *)
IsLinear(linearR2, polyR2) ==
    Lt(Sub(polyR2, linearR2), <<1, 10>>) \/ Lt(<<17, 20>>, linearR2)

detectLinearity(benchmarks) ==
    Then(calculateR2(benchmarks, "ttft_mean", "linear"),
         LAMBDA linearR2 :
            Then(calculateR2(benchmarks, "ttft_mean", "polynomial"),
                 LAMBDA polyR2 : IsLinear(linearR2, polyR2)))

(* the distance of a point from the target along one axis, over the range of
   the axis, and 0 when the range is 0 *)
NormalizedDist(v, target, lo, hi) ==
    IF Lt(lo, hi) THEN Div(AbsQ(Sub(v, target)), Sub(hi, lo)) ELSE Zero

(* the least squared distance of an observation from the target *)
MinDistanceSq(inputs, outputs, targetInput, targetOutput, loIn, hiIn, loOut, hiOut) ==
    MinSeq(Tup([i \in 1..Len(inputs) |->
        Add(Square(NormalizedDist(inputs[i], targetInput, loIn, hiIn)),
            Square(NormalizedDist(outputs[i], targetOutput, loOut, hiOut)))]))

(* ConfidenceLevel giving 'high' to a near target outside the observed ranges *)
ConfidenceLevel_IgnoresExtrapolation(minDistanceSq, isExtrapolating) ==
    IF Lt(minDistanceSq, <<1, 100>>) THEN "high"
    ELSE IF Lt(minDistanceSq, <<9, 100>>) \/ ~isExtrapolating THEN "medium"
    ELSE "low"

ConfidenceLevel(minDistanceSq, isExtrapolating) ==
    IF Lt(minDistanceSq, <<1, 100>>) /\ ~isExtrapolating THEN "high"
    ELSE IF Lt(minDistanceSq, <<9, 100>>) \/ ~isExtrapolating THEN "medium"
    ELSE "low"

ConfidenceWithin(inputs, outputs, targetInput, targetOutput, loIn, hiIn, loOut, hiOut) ==
    ConfidenceLevel(
        MinDistanceSq(inputs, outputs, targetInput, targetOutput, loIn, hiIn, loOut, hiOut),
        \/ Lt(targetInput, loIn) \/ Lt(hiIn, targetInput)
        \/ Lt(targetOutput, loOut) \/ Lt(hiOut, targetOutput))

ConfidenceOver(inputs, outputs, targetInput, targetOutput) ==
    ConfidenceWithin(inputs, outputs, targetInput, targetOutput,
                     MinSeq(inputs), MaxSeq(inputs), MinSeq(outputs), MaxSeq(outputs))

(* minDistance is kept squared: Math.sqrt is increasing, so minDistance < t
   exactly when the least squared distance is below t * t *)
calculateConfidence(benchmarks, targetInput, targetOutput) ==
    ConfidenceOver(SeqMap(LAMBDA b : b.input_avg_len, benchmarks),
                   SeqMap(LAMBDA b : b.output_avg_len, benchmarks),
                   targetInput, targetOutput)

Result(request, predictions, confidence, n, method) ==
    [model |-> request.model,
     input_tokens |-> request.input_tokens,
     output_tokens |-> request.output_tokens,
     predictions |-> predictions,
     confidence |-> confidence,
     num_benchmarks_used |-> n,
     interpolation_method |-> method]

(* predictWithPolynomial without the override below 3 benchmarks *)
predictWithPolynomial_NoOverride(benchmarks, request) ==
    Result(request,
           performPolynomialInterpolation(benchmarks, request.input_tokens,
               request.output_tokens, request.traffic_level),
           calculateConfidence(benchmarks, request.input_tokens, request.output_tokens),
           Len(benchmarks), "polynomial_regression")

(* the confidence is calculateConfidence's, and 'low' when benchmarks.length < 3 *)
predictWithPolynomial(benchmarks, request) ==
    Result(request,
           performPolynomialInterpolation(benchmarks, request.input_tokens,
               request.output_tokens, request.traffic_level),
           IF Len(benchmarks) >= 3
           THEN calculateConfidence(benchmarks, request.input_tokens, request.output_tokens)
           ELSE "low",
           Len(benchmarks), "polynomial_regression")

predictWithLinear(benchmarks, request) ==
    Result(request,
           performMultivariateInterpolation(benchmarks, request.input_tokens,
               request.output_tokens, request.traffic_level),
           calculateConfidence(benchmarks, request.input_tokens, request.output_tokens),
           Len(benchmarks), "multivariate_linear")

(* predictWithAverage counting the uploads (benchmark_id values) behind the
   observations instead of the observations *)
predictWithAverage_CountsUploads(benchmarks, request) ==
    Result(request, performSimpleAveraging(benchmarks), "low",
           Cardinality({benchmarks[i].benchmark_id : i \in 1..Len(benchmarks)}),
           "simple_average")

(* predictWithAverage with the label of calculateConfidence *)
predictWithAverage_Scored(benchmarks, request) ==
    Result(request, performSimpleAveraging(benchmarks),
           calculateConfidence(benchmarks, request.input_tokens, request.output_tokens),
           Len(benchmarks), "simple_average")

predictWithAverage(benchmarks, request) ==
    Result(request, performSimpleAveraging(benchmarks), "low", Len(benchmarks),
           "simple_average")

(* HasVariation over the raw token averages, without Math.round *)
HasVariation_Unrounded(benchmarks) ==
    LET uniqueInputs == {benchmarks[i].input_avg_len : i \in 1..Len(benchmarks)}
        uniqueOutputs == {benchmarks[i].output_avg_len : i \in 1..Len(benchmarks)}
    IN  Cardinality(uniqueInputs) >= 2 \/ Cardinality(uniqueOutputs) >= 2

(* new Set(benchmarks.map(b => Math.round(b.input_avg_len))) and the same for
   output_avg_len: uniqueInputs.size >= 2 || uniqueOutputs.size >= 2 *)
HasVariation(benchmarks) ==
    LET uniqueInputs == {MathRound(benchmarks[i].input_avg_len) : i \in 1..Len(benchmarks)}
        uniqueOutputs == {MathRound(benchmarks[i].output_avg_len) : i \in 1..Len(benchmarks)}
    IN  Cardinality(uniqueInputs) >= 2 \/ Cardinality(uniqueOutputs) >= 2

(* the interpolation_method predictAutoDetect writes into its result *)
AutoMethod(benchmarks) ==
    IF Len(benchmarks) = 1 \/ ~HasVariation(benchmarks) THEN "auto_simple_average"
    ELSE IF Len(benchmarks) < 3 THEN "auto_linear"
    ELSE IF detectLinearity(benchmarks) THEN "auto_linear"
    ELSE "auto_polynomial"

(* the result of the fitter behind an interpolation_method of predictAutoDetect,
   under that name *)
AutoResult(benchmarks, request, method) ==
    [(CASE method = "auto_simple_average" -> predictWithAverage(benchmarks, request)
        [] method = "auto_linear" -> predictWithLinear(benchmarks, request)
        [] method = "auto_polynomial" -> predictWithPolynomial(benchmarks, request))
     EXCEPT !.interpolation_method = method]

predictAutoDetect(benchmarks, request) ==
    AutoResult(benchmarks, request, AutoMethod(benchmarks))

(* EffectiveMethod with the polynomial downgrade one observation short *)
EffectiveMethod_DowngradeBelowTwo(benchmarks, method) ==
    IF Len(benchmarks) = 1 \/ ~HasVariation(benchmarks) THEN "average"
    ELSE IF Len(benchmarks) < 2 /\ method = "polynomial" THEN "linear"
    ELSE method

(* EffectiveMethod with the polynomial downgrade landing on the average *)
EffectiveMethod_DowngradeToAverage(benchmarks, method) ==
    IF Len(benchmarks) = 1 \/ ~HasVariation(benchmarks) THEN "average"
    ELSE IF Len(benchmarks) < 3 /\ method = "polynomial" THEN "average"
    ELSE method

(* EffectiveMethod without the override to the average *)
EffectiveMethod_NoAverageOverride(benchmarks, method) ==
    IF Len(benchmarks) < 3 /\ method = "polynomial" THEN "linear"
    ELSE method

(* the method the switch of predictPerformance dispatches on *)
EffectiveMethod(benchmarks, method) ==
    IF Len(benchmarks) = 1 \/ ~HasVariation(benchmarks) THEN "average"
    ELSE IF Len(benchmarks) < 3 /\ method = "polynomial" THEN "linear"
    ELSE method

(* `switch (effectiveMethod)`: 'auto_detect' and the default both go to
   predictAutoDetect *)
Dispatch(benchmarks, request, effectiveMethod) ==
    CASE effectiveMethod = "polynomial" -> predictWithPolynomial(benchmarks, request)
      [] effectiveMethod = "linear" -> predictWithLinear(benchmarks, request)
      [] effectiveMethod = "average" -> predictWithAverage(benchmarks, request)
      [] OTHER -> predictAutoDetect(benchmarks, request)

(* request.method || 'auto_detect' *)
MethodOf(request) == IF request.method = "" THEN "auto_detect" ELSE request.method

(* PredictFrom asking for two observations before it answers *)
PredictFrom_NeedsTwo(benchmarks, request) ==
    IF Len(benchmarks) <= 1 THEN <<>>
    ELSE <<Dispatch(benchmarks, request, EffectiveMethod(benchmarks, MethodOf(request)))>>

(* predictPerformance once the observations are fetched *)
PredictFrom(benchmarks, request) ==
    IF Len(benchmarks) = 0 THEN <<>>
    ELSE <<Dispatch(benchmarks, request, EffectiveMethod(benchmarks, MethodOf(request)))>>

(* the outcome of predictPerformance: <<>> for null, <<result>> otherwise *)
predictPerformance(table, request) ==
    PredictFrom(FetchObservations(table, request.model), request)

----------------------------------------------------------------------------
(* Inputs *)

(* benchmark ids (uuidv4) in use at one time *)
MaxBenchmarks == 2

(* a CSV record as parse(...) returns it: the statistics of one family share
   a value, summary_job_level_tps is kept under throughput *)
CsvRow(model, traffic, input, output, ttft, tps, e2e, jobTps) ==
    [provider_model |-> model, traffic_level |-> traffic,
     input_avg_len |-> input, output_avg_len |-> output,
     col |-> [m \in Metrics |->
                IF m = "throughput" THEN jobTps
                ELSE IF m \in Range(TtftMetrics) THEN ttft
                ELSE IF m \in Range(TpsMetrics) THEN tps
                ELSE e2e]]

(* the metric columns of the row the INSERT of uploadBenchmark stores for a
   record: the columns it names get the record's value, the others stay NULL *)
StoredCol(record) ==
    [m \in Metrics |-> IF m \in InsertedMetrics THEN record.col[m] ELSE Null]

CsvFiles ==
    { <<CsvRow("m1", Null, Num(1), Num(1), Num(1), Num(2), Num(3), Num(4))>>,
      <<CsvRow("m1", Num(1), <<3, 2>>, Num(1), Num(2), Num(1), Num(4), Num(2)),
        CsvRow("m1", Num(2), Num(2), Num(1), Num(0), Num(3), Num(1), Num(1))>>,
      <<CsvRow("m1", Num(1), Num(1), Num(2), Num(3), Num(2), Num(2), Null),
        CsvRow("m1", Num(1), Num(1), Num(2), Num(1), Num(4), Num(3), Num(3))>>,
      <<CsvRow("m1", Num(2), Num(2), Num(2), Num(4), Num(1), Num(2), Num(3)),
        CsvRow("m2", Null, Num(1), Num(1), Num(-1), Num(0), Num(2), Num(1))>>,
      <<CsvRow("m2", Null, <<5, 4>>, Num(1), Num(2), Num(2), Num(2), Null)>> }

Models == {"m1", "m2"}
Methods == {"auto_detect", "polynomial", "linear", "average"}
(* values of body.method outside PredictionMethod: none given, and a name the
   service does not know *)
OtherMethods == {"", "spline"}
TargetTokens == {<<Num(1), Num(1)>>, <<Num(3), Num(2)>>}
TrafficLevels == {Null, Num(0), Num(2)}

(* the JSON bodies of POST /modeling/predict: every combination of the values
   above with no traffic level or a non-zero one, the traffic level 0 with
   method linear, bodies with another method, and three bodies with a required
   field missing or zero *)
PredictBodies ==
    { [model |-> mo, input_tokens |-> t[1], output_tokens |-> t[2],
       traffic_level |-> tr, method |-> me] :
        mo \in Models, t \in TargetTokens, tr \in TrafficLevels \ {Num(0)},
        me \in Methods }
    \cup
    { [model |-> mo, input_tokens |-> t[1], output_tokens |-> t[2],
       traffic_level |-> Num(0), method |-> "linear"] :
        mo \in Models, t \in TargetTokens }
    \cup
    { [model |-> mo, input_tokens |-> Num(1), output_tokens |-> Num(1),
       traffic_level |-> Null, method |-> me] : mo \in Models, me \in OtherMethods }
    \cup
    { [model |-> "", input_tokens |-> Num(1), output_tokens |-> Num(1),
       traffic_level |-> Null, method |-> "linear"],
      [model |-> "m1", input_tokens |-> Num(0), output_tokens |-> Num(1),
       traffic_level |-> Null, method |-> "linear"],
      [model |-> "m1", input_tokens |-> Num(1), output_tokens |-> Null,
       traffic_level |-> Null, method |-> "linear"] }

----------------------------------------------------------------------------
(* State *)

VARIABLES
    table,      \* the rows of the benchmarks table of the open database
    file,       \* the rows of the benchmarks table in the database file
    db,         \* whether the process holds an open database (`db` is not null)
    request,    \* the body of the last request
    response,   \* the response to it
    orphans,    \* the tables of the Database objects `db` referred to before
                \* a later getDatabase assigned another one to it
    calls       \* the uploads in flight: where each one stands, and the
                \* Database its `const db` holds (0: the one `db` refers to,
                \* k > 0: orphans[k])

vars == <<table, file, db, request, response, orphans, calls>>

(* no upload is in flight *)
NoCalls ==
    [r \in 1..MaxBenchmarks |-> [pc |-> "idle", handle |-> 0, records |-> <<>>]]

(* a process has started, with no database file *)
Init ==
    /\ table = {}
    /\ file = {}
    /\ db = FALSE
    /\ request = [route |-> "none"]
    /\ response = [route |-> "none", status |-> 0]
    /\ orphans = <<>>
    /\ calls = NoCalls

(* initializeDatabase on a loaded or new database: DROP TABLE IF EXISTS
   benchmarks, then CREATE TABLE benchmarks *)
initializeDatabase(loaded) == {}

(* the benchmarks table getDatabase() gives: that of the open database, or of
   the database read from the file and initialized *)
getDatabase == IF db THEN table ELSE initializeDatabase(file)

(* a predict request has been received and not yet answered: the handler is
   suspended at `await modelingService.predictPerformance(...)` *)
Pending == request.route = "predict" /\ response.route = "none"

(* no exchange is open: the server takes the next request *)
Idle == request.route = "none"

(* uuidv4(): an id no row carries *)
FreshBenchmarkIds ==
    {b \in 1..MaxBenchmarks : \A r \in table \cup file : r.benchmark_id # b}

(* the rows an upload inserts under a benchmark_id *)
InsertedRows(benchmark_id, records) ==
    { [benchmark_id |-> benchmark_id, line |-> i,
       provider_model |-> records[i].provider_model,
       traffic_level |-> records[i].traffic_level,
       input_avg_len |-> records[i].input_avg_len,
       output_avg_len |-> records[i].output_avg_len,
       col |-> StoredCol(records[i])] : i \in 1..Len(records) }

(* POST /upload -> BenchmarkService.uploadBenchmark *)
Upload(records) ==
    \E benchmark_id \in FreshBenchmarkIds :
        /\ Idle
        /\ \A b \in FreshBenchmarkIds : benchmark_id <= b
        /\ table' = getDatabase \cup InsertedRows(benchmark_id, records)
        /\ file' = table'
        /\ db' = TRUE
        /\ request' = [route |-> "upload", records |-> records]
        /\ response' = [route |-> "upload", status |-> 200,
                        benchmark_id |-> benchmark_id, rows_inserted |-> Len(records)]
        /\ UNCHANGED <<orphans, calls>>

(* DELETE /benchmarks/:id -> BenchmarkService.deleteBenchmark *)
DeleteBenchmark(benchmark_id) ==
    LET count == Cardinality({r \in getDatabase : r.benchmark_id = benchmark_id})
    IN  /\ Idle
        /\ table' = {r \in getDatabase : r.benchmark_id # benchmark_id}
        /\ file' = table'
        /\ db' = TRUE
        /\ request' = [route |-> "delete", id |-> benchmark_id]
        /\ response' = IF count = 0
                       THEN [route |-> "delete", status |-> 404]
                       ELSE [route |-> "delete", status |-> 200, deleted |-> count]
        /\ UNCHANGED <<orphans, calls>>

(* the ModelingRequest the predict route builds from a body *)
RequestOf(body) ==
    [model |-> body.model,
     input_tokens |-> body.input_tokens,
     output_tokens |-> body.output_tokens,
     traffic_level |-> IF IsFalsy(body.traffic_level) THEN Null ELSE body.traffic_level,
     method |-> IF body.method = "" THEN "auto_detect" ELSE body.method]

(* !model || !input_tokens || !output_tokens *)
MissingRequired(body) ==
    body.model = "" \/ IsFalsy(body.input_tokens) \/ IsFalsy(body.output_tokens)

(* the response of POST /modeling/predict to a body, over a table *)
PredictResponse(rows, body) ==
    IF MissingRequired(body)
    THEN [route |-> "predict", status |-> 400, result |-> <<>>,
          error |-> "Missing required fields: model, input_tokens, output_tokens"]
    ELSE LET result == predictPerformance(rows, RequestOf(body))
         IN  IF result = <<>>
             THEN [route |-> "predict", status |-> 400, result |-> <<>>,
                   error |-> "Insufficient data for modeling. Need at least some benchmark data."]
             ELSE [route |-> "predict", status |-> 200, result |-> result, error |-> ""]

(* POST /modeling/predict arrives *)
PredictReceive(body) ==
    /\ Idle
    /\ request' = [route |-> "predict", body |-> body]
    /\ response' = [route |-> "none", status |-> 0]
    /\ UNCHANGED <<table, file, db, orphans, calls>>

(* the handler runs: validation, predictPerformance (which opens the database
   if the process has none open), the answer *)
PredictRespond ==
    /\ Pending
    /\ response' = PredictResponse(getDatabase, request.body)
    /\ IF MissingRequired(request.body)
       THEN UNCHANGED <<table, db>>
       ELSE table' = getDatabase /\ db' = TRUE
    /\ UNCHANGED <<file, request, orphans, calls>>

(* GET /modeling/models -> ModelingService.getModelsAvailableForModeling:
   SELECT DISTINCT provider_model FROM benchmarks *)
getModelsAvailableForModeling(rows) == {r.provider_model : r \in rows}

ModelingModels ==
    /\ Idle
    /\ table' = getDatabase
    /\ db' = TRUE
    /\ request' = [route |-> "models"]
    /\ response' = [route |-> "models", status |-> 200,
                    models |-> getModelsAvailableForModeling(getDatabase)]
    /\ UNCHANGED <<file, orphans, calls>>

(* the process ends and a new one starts: the open database is gone.  On
   SIGINT closeDatabase saves it to the file first; on any other end of the
   process the file stays as the last save left it. *)
Restart(graceful) ==
    /\ Idle
    /\ db
    /\ table' = {}
    /\ file' = IF graceful THEN table ELSE file
    /\ db' = FALSE
    /\ request' = [route |-> "none"]
    /\ response' = [route |-> "none", status |-> 0]
    /\ orphans' = <<>>
    /\ calls' = NoCalls

(* res.json(...) has been sent and the exchange is over *)
Complete ==
    /\ ~Idle
    /\ ~Pending
    /\ request' = [route |-> "none"]
    /\ response' = [route |-> "none", status |-> 0]
    /\ UNCHANGED <<table, file, db, orphans, calls>>

Next ==
    \/ \E records \in CsvFiles : Upload(records)
    \/ \E benchmark_id \in 1..MaxBenchmarks : DeleteBenchmark(benchmark_id)
    \/ \E body \in PredictBodies : PredictReceive(body)
    \/ PredictRespond
    \/ ModelingModels
    \/ Complete
    \/ \E graceful \in BOOLEAN : Restart(graceful)

Spec == Init /\ [][Next]_vars

----------------------------------------------------------------------------
(* The store under uploads that fail *)

(* POST /upload when uploadBenchmark throws: parse(...) throws after
   getDatabase (inserted = 0), or db.run throws on the record after the first
   `inserted` ones.  There is no transaction and saveDatabase is not reached;
   the route answers 500. *)
UploadFails(records, inserted) ==
    \E benchmark_id \in FreshBenchmarkIds :
        /\ Idle
        /\ \A b \in FreshBenchmarkIds : benchmark_id <= b
        /\ table' = getDatabase \cup InsertedRows(benchmark_id, SubSeq(records, 1, inserted))
        /\ db' = TRUE
        /\ request' = [route |-> "upload", records |-> records]
        /\ response' = [route |-> "upload", status |-> 500]
        /\ UNCHANGED <<file, orphans, calls>>

StoreNext ==
    \/ \E records \in CsvFiles : Upload(records)
    \/ \E records \in CsvFiles : \E inserted \in 0..(Len(records) - 1) :
          UploadFails(records, inserted)
    \/ \E benchmark_id \in 1..MaxBenchmarks : DeleteBenchmark(benchmark_id)
    \/ ModelingModels
    \/ Complete
    \/ \E graceful \in BOOLEAN : Restart(graceful)

SpecStore == Init /\ [][StoreNext]_vars

----------------------------------------------------------------------------
(* Uploads that reach getDatabase while the database is being opened.  Each
   upload is followed through `calls`; the benchmark_id it draws is its index. *)

(* uploadBenchmark is called and runs to `const db = await getDatabase()`:
   with a database open getDatabase returns it, with none (`if (!db)`,
   `if (!SQL)`) it stops at `await initSqlJs()` *)
CallGetDatabase(r, records) ==
    /\ calls[r].pc = "idle"
    /\ calls' = [calls EXCEPT ![r] = [pc |-> IF db THEN "opened" ELSE "awaiting",
                                      handle |-> 0, records |-> records]]
    /\ UNCHANGED <<table, file, db, request, response, orphans>>

(* initSqlJs() resolves for an upload stopped in getDatabase, and the rest of
   getDatabase runs without testing `db` again: a Database is read from the
   file, initialized, assigned to `db` and returned.  The Database `db`
   referred to until then stays with the uploads that hold it. *)
ResumeGetDatabase(r) ==
    /\ calls[r].pc = "awaiting"
    /\ table' = initializeDatabase(file)
    /\ db' = TRUE
    /\ orphans' = IF db THEN Append(orphans, table) ELSE orphans
    /\ calls' = [q \in DOMAIN calls |->
                    IF q = r THEN [calls[q] EXCEPT !.pc = "opened"]
                    ELSE IF db /\ calls[q].pc \in {"opened", "done"} /\ calls[q].handle = 0
                         THEN [calls[q] EXCEPT !.handle = Len(orphans) + 1]
                         ELSE calls[q]]
    /\ UNCHANGED <<file, request, response>>

(* the rest of uploadBenchmark, which has no await: the records are inserted
   into the Database the upload holds, and saveDatabase() writes the Database
   `db` refers to *)
InsertAndSave(r) ==
    LET rows == InsertedRows(r, calls[r].records)
        handle == calls[r].handle
    IN  /\ calls[r].pc = "opened"
        /\ IF handle = 0
           THEN table' = table \cup rows /\ orphans' = orphans
           ELSE table' = table /\ orphans' = [orphans EXCEPT ![handle] = @ \cup rows]
        /\ file' = table'
        /\ calls' = [calls EXCEPT ![r].pc = "done"]
        /\ UNCHANGED <<db, request, response>>

RaceNext ==
    \/ \E r \in 1..MaxBenchmarks, records \in CsvFiles : CallGetDatabase(r, records)
    \/ \E r \in 1..MaxBenchmarks : ResumeGetDatabase(r)
    \/ \E r \in 1..MaxBenchmarks : InsertAndSave(r)

SpecRace == Init /\ [][RaceNext]_vars

----------------------------------------------------------------------------
(* Fitting a plane: fitLinearModel as a function of its observations *)

(* planes y = a + b * input + c * output, as <<a, b, c>> *)
Planes == {<<5, 2, 3>>, <<0, 1, 0>>, <<1, 0, 0>>, <<2, -1, 1>>}

(* the (input, output) token averages of the observations of a fit *)
PointSets ==
    { <<<<1, 1>>, <<2, 1>>, <<1, 2>>>>,
      <<<<1, 1>>, <<2, 1>>, <<1, 2>>, <<2, 2>>>>,
      <<<<1, 1>>, <<2, 2>>>>,
      <<<<1, 1>>, <<2, 1>>, <<3, 1>>>>,
      <<<<1, 1>>>> }

FitTargets == {<<1, 1>>, <<3, 2>>, <<2, 1>>}

PlaneAt(plane, x1, x2) == Num(plane[1] + plane[2] * x1 + plane[3] * x2)

(* one uploaded benchmark whose ttft statistics lie on the plane *)
RowsOnPlane(plane, points) ==
    { [benchmark_id |-> 1, line |-> i, provider_model |-> "m1",
       traffic_level |-> Null,
       input_avg_len |-> Num(points[i][1]), output_avg_len |-> Num(points[i][2]),
       col |-> StoredCol(CsvRow("m1", Null, Num(points[i][1]), Num(points[i][2]),
                                PlaneAt(plane, points[i][1], points[i][2]),
                                Num(1), Num(1), Num(1)))] : i \in 1..Len(points) }

FitInit ==
    \E plane \in Planes, points \in PointSets, target \in FitTargets :
        /\ table = RowsOnPlane(plane, points)
        /\ file = table
        /\ db = TRUE
        /\ request = [route |-> "fit", plane |-> plane, target |-> target]
        /\ response = [route |-> "none", status |-> 0]
        /\ orphans = <<>>
        /\ calls = NoCalls

(* the 2-feature linear fit of ttft_mean and the prediction made from it *)
FitLinear ==
    LET data == FetchObservations(table, "m1")
        x1 == Num(request.target[1])
        x2 == Num(request.target[2])
    IN  /\ response.route = "none"
        /\ response' = [route |-> "fit", status |-> 200,
                        coeffs |-> fitLinearModel(data, "ttft_mean"),
                        prediction |->
                            performMultivariateInterpolation(data, x1, x2, Null)["ttft_mean"]]
        /\ UNCHANGED <<table, file, db, request, orphans, calls>>

FitNext == FitLinear

SpecFit == FitInit /\ [][FitNext]_vars

----------------------------------------------------------------------------
(* Choosing a fitter: predictAutoDetect and detectLinearity as functions of
   the observations *)

(* surfaces y = a + b*x1 + c*x2 + d*x1^2 + e*x2^2 + f*x1*x2, as <<a, ..., f>> *)
Surfaces ==
    { <<3, 0, 0, 0, 0, 0>>, <<5, 2, 3, 0, 0, 0>>, <<1, 1, 0, 0, 0, 0>>,
      <<4, -4, 0, 1, 0, 0>>, <<0, 0, 0, 1, 0, 0>>, <<0, 0, 0, 0, 0, 1>>,
      <<9, -6, -6, 1, 1, 4>>, <<1, 0, 0, 0, 3, 0>> }

(* the (input, output) token averages of three or more observations *)
DetectPointSets ==
    { <<<<1, 1>>, <<2, 1>>, <<3, 1>>>>,
      <<<<1, 1>>, <<2, 1>>, <<1, 2>>>>,
      <<<<1, 1>>, <<2, 2>>, <<3, 3>>>>,
      <<<<1, 1>>, <<2, 1>>, <<1, 2>>, <<2, 2>>>>,
      <<<<1, 1>>, <<2, 1>>, <<3, 1>>, <<1, 2>>, <<3, 2>>>> }

SurfaceAt(surface, x1, x2) ==
    Num(surface[1] + surface[2] * x1 + surface[3] * x2 + surface[4] * x1 * x1
        + surface[5] * x2 * x2 + surface[6] * x1 * x2)

(* one uploaded benchmark whose ttft statistics lie on the surface *)
RowsOnSurface(surface, points) ==
    { [benchmark_id |-> 1, line |-> i, provider_model |-> "m1",
       traffic_level |-> Null,
       input_avg_len |-> Num(points[i][1]), output_avg_len |-> Num(points[i][2]),
       col |-> StoredCol(CsvRow("m1", Null, Num(points[i][1]), Num(points[i][2]),
                                SurfaceAt(surface, points[i][1], points[i][2]),
                                Num(1), Num(1), Num(1)))] : i \in 1..Len(points) }

(* the bodies of the requests that reach predictAutoDetect *)
DetectBodies ==
    { [model |-> "m1", input_tokens |-> Num(1), output_tokens |-> Num(1),
       traffic_level |-> Null, method |-> me] : me \in {"auto_detect", "", "spline"} }

(* the rows are stored and a predict request has arrived *)
DetectInit ==
    \E surface \in Surfaces, points \in DetectPointSets, body \in DetectBodies :
        /\ table = RowsOnSurface(surface, points)
        /\ file = table
        /\ db = TRUE
        /\ request = [route |-> "predict", body |-> body]
        /\ response = [route |-> "none", status |-> 0]
        /\ orphans = <<>>
        /\ calls = NoCalls

DetectNext == PredictRespond

SpecDetect == DetectInit /\ [][DetectNext]_vars

----------------------------------------------------------------------------
(* The polynomial fitter: predictWithPolynomial as a function of the
   observations it is given, fewer than 3 included *)

PolyInit ==
    \E surface \in Surfaces,
       points \in DetectPointSets \cup {<<<<1, 1>>>>, <<<<1, 1>>, <<2, 1>>>>,
                                       <<<<1, 1>>, <<1, 2>>>>},
       target \in TargetTokens :
        /\ table = RowsOnSurface(surface, points)
        /\ file = table
        /\ db = TRUE
        /\ request = [route |-> "polynomial",
                      body |-> [model |-> "m1", input_tokens |-> target[1],
                                output_tokens |-> target[2], traffic_level |-> Null,
                                method |-> "polynomial"]]
        /\ response = [route |-> "none", status |-> 0]
        /\ orphans = <<>>
        /\ calls = NoCalls

PolynomialFit ==
    /\ request.route = "polynomial"
    /\ response.route = "none"
    /\ response' = [route |-> "polynomial", status |-> 200,
                    result |-> <<predictWithPolynomial(FetchObservations(table, "m1"),
                                                       request.body)>>]
    /\ UNCHANGED <<table, file, db, request, orphans, calls>>

SpecPolynomial == PolyInit /\ [][PolynomialFit]_vars

----------------------------------------------------------------------------
(* Properties *)

(* a predict request and the answer to it *)
Answered == request.route = "predict" /\ response.route = "predict"

Predicted == Answered /\ response.status = 200

(* the observations the answered request was served from *)
Observations == FetchObservations(table, request.body.model)

AverageMethods == {"simple_average", "auto_simple_average"}
LinearMethods == {"multivariate_linear", "auto_linear"}
PolynomialMethods == {"polynomial_regression", "auto_polynomial"}

ResultMethod == response.result[1].interpolation_method
Predictions == response.result[1].predictions

(* C1: every value of a returned predictions record is >= 0, whatever the
   observations, the target and the method.  The average fitter returns the
   mean of the stored values unclamped, so a stored negative statistic
   refutes it. *)
C1_PredictionsNonNegative ==
    Predicted => \A m \in DOMAIN Predictions : Leq(Zero, Predictions[m])

(* C2: no result is fitted by the polynomial fitter (polynomial_regression or
   auto_polynomial) from fewer than 3 observations *)
C2_NoPolynomialBelowThree ==
    Predicted /\ ResultMethod \in PolynomialMethods => Len(Observations) >= 3

C2_Witness ==
    /\ Predicted
    /\ request.body.method \in {"polynomial", "auto_detect"}
    /\ ResultMethod \in LinearMethods
    /\ Len(Observations) = 2

(* C3: with exactly 1 observation the result comes from the average fitter,
   whatever method was requested *)
C3_OneObservationAverages ==
    Predicted =>
        LET obs == Observations
        IN  Len(obs) = 1 =>
              /\ ResultMethod \in AverageMethods
              /\ Predictions = performSimpleAveraging(obs)

C3_Witness ==
    /\ Predicted
    /\ request.body.method = "linear"
    /\ ResultMethod \in AverageMethods
    /\ Len(Observations) = 1

(* the distinct rounded input and output token values of the observations *)
RoundedInputs(obs) == {MathRound(obs[i].input_avg_len) : i \in 1..Len(obs)}
RoundedOutputs(obs) == {MathRound(obs[i].output_avg_len) : i \in 1..Len(obs)}

(* C4: when the rounded input tokens have fewer than 2 distinct values and so
   have the rounded output tokens, the result comes from the average fitter,
   for any number of observations and any requested method *)
C4_NoVariationAverages ==
    Predicted =>
        LET obs == Observations
        IN  Cardinality(RoundedInputs(obs)) < 2 /\ Cardinality(RoundedOutputs(obs)) < 2 =>
              /\ ResultMethod \in AverageMethods
              /\ Predictions = performSimpleAveraging(obs)

C4_Witness ==
    /\ Predicted
    /\ request.body.method = "polynomial"
    /\ ResultMethod \in AverageMethods
    /\ LET obs == Observations
       IN  /\ Len(obs) >= 2
           /\ Cardinality(RoundedInputs(obs)) < 2 /\ Cardinality(RoundedOutputs(obs)) < 2
           /\ \E i, j \in 1..Len(obs) : obs[i].input_avg_len # obs[j].input_avg_len

(* C5: with exactly 2 observations that differ in rounded input or rounded
   output tokens, a request for method polynomial is served by the linear
   fitter: the result's method is multivariate_linear *)
C5_PolynomialDowngradedToLinear ==
    Predicted /\ request.body.method = "polynomial" =>
        LET obs == Observations
        IN  /\ Len(obs) = 2
            /\ (Cardinality(RoundedInputs(obs)) >= 2 \/ Cardinality(RoundedOutputs(obs)) >= 2)
            => ResultMethod = "multivariate_linear"

C5_Witness ==
    /\ Predicted
    /\ request.body.method = "polynomial"
    /\ ResultMethod = "multivariate_linear"
    /\ LET obs == Observations
       IN  Len(obs) = 2 /\ Cardinality(RoundedInputs(obs)) >= 2

(* a body that passes the route's check of its required fields *)
BodyComplete ==
    /\ request.body.model # ""
    /\ ~IsFalsy(request.body.input_tokens)
    /\ ~IsFalsy(request.body.output_tokens)

RowsOfModel == {r \in table : r.provider_model = request.body.model}

(* C6: predictPerformance returns null exactly when the table holds no row of
   the requested model, and a result otherwise; on null the predict route
   answers with an error and no prediction *)
C6_NullExactlyWhenNoRows ==
    Answered /\ BodyComplete =>
        /\ (response.result = <<>>) <=> (RowsOfModel = {})
        /\ response.result = <<>> =>
              /\ response.status = 400
              /\ response.error =
                    "Insufficient data for modeling. Need at least some benchmark data."
        /\ response.result # <<>> => response.status = 200

C6_Witness ==
    /\ Answered /\ BodyComplete
    /\ table # {}
    /\ RowsOfModel = {}
    /\ response.status = 400 /\ response.result = <<>>

RECURSIVE SumOver(_, _)
SumOver(obs, metric) ==
    IF obs = <<>> THEN Zero
    ELSE LET v == Head(obs).val[metric]
         IN  Add(IF IsNull(v) THEN Zero ELSE v, SumOver(Tail(obs), metric))

(* C7: the average fitter predicts, for each of the 25 statistics, e2e_mean
   included, the arithmetic mean of the statistic over all observations with
   a missing value counted as 0: a value that does not depend on the target *)
C7_AverageIsArithmeticMean ==
    Predicted /\ ResultMethod \in AverageMethods =>
        LET obs == Observations
        IN  /\ DOMAIN Predictions = Metrics
            /\ \A m \in Metrics : Predictions[m] = Div(SumOver(obs, m), Num(Len(obs)))

C7_Witness ==
    /\ Predicted /\ ResultMethod \in AverageMethods
    /\ Lt(Zero, Predictions["throughput"])
    /\ LET obs == Observations
       IN  /\ Len(obs) = 2
           /\ \E i \in 1..2 : IsNull(obs[i].val["throughput"])
           /\ \E i \in 1..2 : ~IsNull(obs[i].val["throughput"])

(* C8: observations on a plane y = a + b * input + c * output make
   fitLinearModel return intercept a, inputCoeff b and outputCoeff c, and the
   prediction at any target is the plane's value there, clamped at 0.  Refuted
   by observations whose (input, output) points lie on one line. *)
C8_PlaneRecovered ==
    response.route = "fit" =>
        /\ response.coeffs = [intercept |-> Num(request.plane[1]),
                              inputCoeff |-> Num(request.plane[2]),
                              outputCoeff |-> Num(request.plane[3])]
        /\ response.prediction =
              Max0(PlaneAt(request.plane, request.target[1], request.target[2]))

(* C9: without a traffic level, a result of the linear or the polynomial
   fitter whose predicted user_tps_mean is positive has
   e2e_mean = ttft_mean + (output_tokens / user_tps_mean) * 1000 *)
C9_MechanisticE2E ==
    /\ Predicted
    /\ IsNull(request.body.traffic_level)
    /\ ResultMethod \in LinearMethods \cup PolynomialMethods
    /\ Lt(Zero, Predictions["user_tps_mean"])
    => Predictions["e2e_mean"] =
          Add(Predictions["ttft_mean"],
              Mul(Div(request.body.output_tokens, Predictions["user_tps_mean"]),
                  Num(1000)))

C9_Witness ==
    /\ Predicted
    /\ IsNull(request.body.traffic_level)
    /\ ResultMethod \in PolynomialMethods
    /\ Lt(Zero, Predictions["user_tps_mean"])
    /\ Lt(Zero, Predictions["ttft_mean"])

(* the predictions of the fitter a result names, made with 3 features *)
Regression3D(traffic) ==
    IF ResultMethod \in LinearMethods
    THEN performMultivariateInterpolation(Observations, request.body.input_tokens,
             request.body.output_tokens, traffic)
    ELSE performPolynomialInterpolation(Observations, request.body.input_tokens,
             request.body.output_tokens, traffic)

(* C10: a request that carries a numeric traffic_level has every statistic,
   e2e_mean included, fitted with 3 features and no mechanistic e2e_mean; a
   request without one has the 2-feature fit with e2e_mean mechanistic.
   Refuted by traffic_level 0, which the route passes on as absent. *)
C10_NumericTrafficUses3D ==
    /\ Predicted
    /\ ResultMethod \in LinearMethods \cup PolynomialMethods
    /\ ~IsNull(request.body.traffic_level)
    => Predictions = Regression3D(request.body.traffic_level)

----------------------------------------------------------------------------
(* Properties of the confidence and of the result record *)

Confidence == response.result[1].confidence

InputsOf(obs) == {obs[i].input_avg_len : i \in 1..Len(obs)}
OutputsOf(obs) == {obs[i].output_avg_len : i \in 1..Len(obs)}

Lowest(S) == CHOOSE x \in S : \A y \in S : Leq(x, y)
Highest(S) == CHOOSE x \in S : \A y \in S : Leq(y, x)
Span(S) == Sub(Highest(S), Lowest(S))

(* |v - target| over the span of the observed values, 0 for a span of 0 *)
Normalized(S, v, target) ==
    IF Span(S) = Zero THEN Zero ELSE Div(AbsQ(Sub(v, target)), Span(S))

(* some observation lies at a normalized distance below the square root of
   limitSq from the target *)
SomeObservationWithin(obs, targetInput, targetOutput, limitSq) ==
    \E i \in 1..Len(obs) :
        Lt(Add(Square(Normalized(InputsOf(obs), obs[i].input_avg_len, targetInput)),
               Square(Normalized(OutputsOf(obs), obs[i].output_avg_len, targetOutput))),
           limitSq)

(* the target lies within the observed minimum and maximum of both axes *)
InsideEnvelope(obs, targetInput, targetOutput) ==
    /\ Leq(Lowest(InputsOf(obs)), targetInput) /\ Leq(targetInput, Highest(InputsOf(obs)))
    /\ Leq(Lowest(OutputsOf(obs)), targetOutput) /\ Leq(targetOutput, Highest(OutputsOf(obs)))

(* C11: a result of the linear or polynomial fitter has confidence high
   exactly when some observation lies at a normalized distance below 0.1 from
   the target and the target is inside the observed envelope of input and
   output; so a target equal to an observation's (input, output) gets high *)
C11_HighWhenNearAndInside ==
    Predicted /\ ResultMethod \in LinearMethods \cup PolynomialMethods =>
        LET obs == Observations
        IN  (Confidence = "high") <=>
               /\ SomeObservationWithin(obs, request.body.input_tokens,
                                        request.body.output_tokens, <<1, 100>>)
               /\ InsideEnvelope(obs, request.body.input_tokens, request.body.output_tokens)

C11_Witness ==
    /\ Predicted /\ ResultMethod \in LinearMethods \cup PolynomialMethods
    /\ Confidence = "high"
    /\ LET obs == Observations
       IN  /\ Len(obs) >= 3
           /\ \E i \in 1..Len(obs) :
                  /\ obs[i].input_avg_len = request.body.input_tokens
                  /\ obs[i].output_avg_len = request.body.output_tokens

(* the target lies outside the observed values S of an axis by more than 0.3
   of their span *)
FarOutside(S, target) ==
    \/ Lt(target, Sub(Lowest(S), Mul(<<3, 10>>, Span(S))))
    \/ Lt(Add(Highest(S), Mul(<<3, 10>>, Span(S))), target)

(* C12: a target whose input or output lies far outside the observed envelope
   gets confidence low, also when the observations have one value on that
   axis.  Refuted by such observations: the distance along an axis of span 0
   is taken as 0, and a target at distance 0 is never rated low. *)
C12_FarOutsideIsLow ==
    Predicted =>
        LET obs == Observations
        IN  \/ FarOutside(InputsOf(obs), request.body.input_tokens)
            \/ FarOutside(OutputsOf(obs), request.body.output_tokens)
            => Confidence = "low"

(* C13: num_benchmarks_used is the number of observations fetched for the
   model, whichever fitter ran and whether or not the method was overridden *)
C13_CountsObservations ==
    Predicted => response.result[1].num_benchmarks_used = Len(Observations)

C13_Witness ==
    /\ Predicted
    /\ request.body.method = "polynomial" /\ ResultMethod \in AverageMethods
    /\ response.result[1].num_benchmarks_used = 2
    /\ Cardinality({r.benchmark_id : r \in RowsOfModel}) = 1

----------------------------------------------------------------------------
(* Properties of the store, the routes and the aggregation *)

(* the rows a query of the process would see: those of the open database, or
   those of the database file when the process has none open *)
StoredRows == IF db THEN table ELSE file

(* C15: a prediction call leaves the stored rows as they were, also when its
   getDatabase is the first database access of the process.  Refuted by a
   first access on an existing file: initializeDatabase drops the table. *)
C15_PredictLeavesStore ==
    [][Pending => StoredRows' = StoredRows]_vars

(* C16: a predict request whose method is none of auto_detect, linear,
   polynomial, average (and is given) is rejected: no prediction is computed
   for it.  Refuted: the route passes any method on and the switch of
   predictPerformance falls to predictAutoDetect. *)
C16_UnknownMethodRejected ==
    Answered /\ request.body.method \notin Methods \cup {""} =>
        response.status # 200 /\ response.result = <<>>

AutoNames == {"auto_simple_average", "auto_linear", "auto_polynomial"}

(* C17: for a request with method auto_detect or none the result's method is
   one of the auto_ names, for every non-empty observation set; for a requested
   linear, polynomial or average it is none of them.  Refuted by auto_detect
   on one observation, which is answered as simple_average. *)
C17_MethodNameRecordsResolution ==
    Predicted =>
        /\ request.body.method \in {"auto_detect", ""} => ResultMethod \in AutoNames
        /\ request.body.method \in {"linear", "polynomial", "average"} =>
              ResultMethod \notin AutoNames

(* C18: every model GET /modeling/models lists has at least 2 observations
   that vary in input or output tokens.  Refuted: every model with a row is
   listed. *)
C18_ListedModelsSufficient ==
    response.route = "models" =>
        \A model \in response.models :
            LET obs == FetchObservations(table, model)
            IN  Len(obs) >= 2 /\ HasVariation(obs)

Triple(r) == <<r.input_avg_len, r.output_avg_len, r.traffic_level>>

(* ascending order of (input, output, traffic), NULL before every number *)
TripleLeq(a, b) ==
    \/ SqlLt(a[1], b[1])
    \/ a[1] = b[1] /\ SqlLt(a[2], b[2])
    \/ a[1] = b[1] /\ a[2] = b[2] /\ (a[3] = b[3] \/ SqlLt(a[3], b[3]))

RECURSIVE SumOfSet(_, _)
SumOfSet(rows, metric) ==
    IF rows = {} THEN Zero
    ELSE LET r == CHOOSE x \in rows : TRUE
         IN  Add(r.col[metric], SumOfSet(rows \ {r}, metric))

(* the arithmetic mean of a metric over the rows that have it, NULL if none has *)
MeanOverRows(rows, metric) ==
    LET having == {r \in rows : ~IsNull(r.col[metric])}
    IN  IF having = {} THEN Null
        ELSE Div(SumOfSet(having, metric), Num(Cardinality(having)))

(* the observations are in ascending order of (input, output, traffic) *)
Ascending(obs) ==
    \A i, j \in 1..Len(obs) : i < j => TripleLeq(Triple(obs[i]), Triple(obs[j]))

(* C19 as claimed: one observation per distinct (input, output, traffic) among
   the model's rows, rows of different uploads merged, each statistic the mean
   over the merged rows, in ascending order.  Refuted by two uploads with the
   same triple: the query groups by benchmark_id as well. *)
C19_OneObservationPerTriple ==
    Answered /\ BodyComplete =>
        LET obs == Observations
            rows == RowsOfModel
        IN  /\ Len(obs) = Cardinality({Triple(r) : r \in rows})
            /\ \A i \in 1..Len(obs) : \A m \in Metrics :
                  obs[i].val[m] =
                     MeanOverRows({r \in rows : Triple(r) = Triple(obs[i])}, m)
            /\ Ascending(obs)

(* C19 amended: one observation per distinct (benchmark_id, input, output,
   traffic) among the model's rows, each of its 25 values the mean of the
   column over the rows of the group that have it, in ascending order of
   (input, output, traffic) *)
C19_OneObservationPerGroup ==
    Answered /\ BodyComplete =>
        LET obs == Observations
            rows == RowsOfModel
        IN  /\ Len(obs) = Cardinality({GroupKey(r) : r \in rows})
            /\ {GroupKey(obs[i]) : i \in 1..Len(obs)} = {GroupKey(r) : r \in rows}
            /\ \A i \in 1..Len(obs) : \A m \in Metrics :
                  obs[i].val[m] =
                     MeanOverRows({r \in rows : GroupKey(r) = GroupKey(obs[i])}, m)
            /\ Ascending(obs)

C19_Witness ==
    /\ Predicted
    /\ LET obs == Observations
       IN  /\ Len(obs) = 2
           /\ Triple(obs[1]) = Triple(obs[2])
           /\ Cardinality({r \in RowsOfModel : GroupKey(r) = GroupKey(obs[1])}) = 2
           /\ \E r \in RowsOfModel : IsNull(r.col["throughput"])
           /\ ~IsNull(obs[1].val["throughput"])

(* C20: without a traffic level, a result of the linear or polynomial fitter
   whose predicted user_tps_mean is not positive has
   e2e_mean = ttft_mean + output_tokens * 10.  Refuted: the fallback
   output_tokens * 10 is multiplied by 1000 like a quotient in seconds. *)
C20_FallbackGenerationRate ==
    /\ Predicted
    /\ IsNull(request.body.traffic_level)
    /\ ResultMethod \in LinearMethods \cup PolynomialMethods
    /\ ~Lt(Zero, Predictions["user_tps_mean"])
    => Predictions["e2e_mean"] =
          Add(Predictions["ttft_mean"], Mul(request.body.output_tokens, Num(10)))

----------------------------------------------------------------------------
(* Properties of the fitters *)

(* R2 of predicted values against actual ones: 1 - SS_res / SS_tot, at least
   0, and 0 when SS_tot is 0 *)
RSquared(yActual, yPredicted) ==
    LET n == Len(yActual)
        yMean == Div(SumSeq(yActual), Num(n))
        ssRes == SumSeq(Tup([i \in 1..n |-> Square(Sub(yActual[i], yPredicted[i]))]))
        ssTot == SumSeq(Tup([i \in 1..n |-> Square(Sub(yActual[i], yMean))]))
        r2 == Sub(Num(1), Div(ssRes, ssTot))
    IN  IF ssTot = Zero THEN Zero
        ELSE IF Lt(r2, Zero) THEN Zero ELSE r2

(* the request leaves the choice of the fitter to the service *)
AutoRequested == request.body.method \in {"auto_detect", ""}

(* C21: under auto_detect with at least 3 observations that show variation,
   the linear fitter is chosen exactly when R2_poly - R2_linear < 0.10 or
   R2_linear > 0.85 for ttft_mean, and the polynomial fitter otherwise;
   observations with identical ttft_mean resolve to linear *)
C21_LinearityRule ==
    Predicted /\ AutoRequested =>
        LET obs == Observations
        IN  Len(obs) >= 3 /\ HasVariation(obs) =>
              LET y == Column(obs, "ttft_mean")
                  linearR2 == RSquared(y, LinearValues(obs, fitLinearModel(obs, "ttft_mean")))
                  polyR2 == RSquared(y, PolynomialValues(obs, fitPolynomialModel(obs, "ttft_mean")))
                  rule == \/ Lt(Sub(polyR2, linearR2), <<10, 100>>)
                          \/ Lt(<<85, 100>>, linearR2)
              IN  /\ ResultMethod = (IF rule THEN "auto_linear" ELSE "auto_polynomial")
                  /\ Cardinality(Range(y)) = 1 => ResultMethod = "auto_linear"

C21_Witness ==
    /\ Predicted
    /\ AutoRequested
    /\ Len(Observations) >= 3
    /\ ResultMethod = "auto_polynomial"

(* the sum of (a[i] - mean(a)) * (b[i] - mean(b)) *)
Covariation(a, b) ==
    LET n == Num(Len(a))
        meanA == Div(SumSeq(a), n)
        meanB == Div(SumSeq(b), n)
    IN  SumSeq(Tup([i \in 1..Len(a) |-> Mul(Sub(a[i], meanA), Sub(b[i], meanB))]))

(* cov(feature, y) / var(feature), and 0 for a feature without variance *)
SlopeAlone(x, y) ==
    IF Lt(Zero, Covariation(x, x)) THEN Div(Covariation(x, y), Covariation(x, x)) ELSE Zero

(* |var(input) * var(output) - cov(input, output)^2| <= 1e-10: a rational
   whose denominator is below 2^31 is that small only when it is 0 *)
Singular(x1, x2) ==
    Sub(Mul(Covariation(x1, x1), Covariation(x2, x2)),
        Square(Covariation(x1, x2))) = Zero

(* C22: on a singular system fitLinearModel returns, for each feature, the
   one-dimensional slope cov(feature, y) / var(feature), and 0 for a feature
   with zero variance; the prediction is then the same for every target value
   of a zero-variance feature *)
C22_SingularFallback ==
    response.route = "fit" =>
        LET data == FetchObservations(table, "m1")
            x1 == SeqMap(LAMBDA p : p.input_avg_len, data)
            x2 == SeqMap(LAMBDA p : p.output_avg_len, data)
            y == Column(data, "ttft_mean")
        IN  Singular(x1, x2) =>
              /\ response.coeffs.inputCoeff = SlopeAlone(x1, y)
              /\ response.coeffs.outputCoeff = SlopeAlone(x2, y)
              /\ Covariation(x1, x1) = Zero =>
                    /\ response.coeffs.inputCoeff = Zero
                    /\ \A t \in FitTargets :
                          performMultivariateInterpolation(data, Num(t[1]),
                              Num(request.target[2]), Null)["ttft_mean"]
                          = response.prediction
              /\ Covariation(x2, x2) = Zero =>
                    /\ response.coeffs.outputCoeff = Zero
                    /\ \A t \in FitTargets :
                          performMultivariateInterpolation(data, Num(request.target[1]),
                              Num(t[2]), Null)["ttft_mean"]
                          = response.prediction

C22_Witness ==
    /\ response.route = "fit"
    /\ LET data == FetchObservations(table, "m1")
           x1 == SeqMap(LAMBDA p : p.input_avg_len, data)
           x2 == SeqMap(LAMBDA p : p.output_avg_len, data)
       IN  /\ Singular(x1, x2)
           /\ Covariation(x2, x2) = Zero
           /\ Lt(Zero, Covariation(x1, x1))
           /\ response.coeffs.inputCoeff # Zero
           /\ response.coeffs.outputCoeff = Zero

(* the label calculateConfidence gives for the observations and the target of
   the request *)
ScorerLabel(obs) ==
    calculateConfidence(obs, request.body.input_tokens, request.body.output_tokens)

(* C23: every result of the average fitter has confidence low, whatever the
   scorer would return, requested or forced by the selector *)
C23_AverageIsLow ==
    Predicted /\ ResultMethod \in AverageMethods => Confidence = "low"

C23_Witness ==
    /\ Predicted
    /\ ResultMethod \in AverageMethods
    /\ request.body.method # "average"
    /\ ScorerLabel(Observations) = "high"
    /\ Confidence = "low"

(* C24: predictWithPolynomial reports low when it is given fewer than 3
   observations, and the scorer's label when it is given 3 or more *)
C24_PolynomialLowBelowThree ==
    response.route = "polynomial" =>
        LET obs == FetchObservations(table, "m1")
        IN  Confidence = (IF Len(obs) < 3 THEN "low" ELSE ScorerLabel(obs))

C24_Witness ==
    /\ response.route = "polynomial"
    /\ Len(FetchObservations(table, "m1")) = 2
    /\ ScorerLabel(FetchObservations(table, "m1")) = "high"
    /\ Confidence = "low"

----------------------------------------------------------------------------
(* Properties of the database handle and of the upload and delete routes *)

(* C25: the rows saved to the database file are available after a restart:
   the first read of the new process (a prediction, the list of models) opens
   the database with the rows of the file.  Refuted: getDatabase loads the
   file and initializeDatabase drops the table. *)
C25_RowsSurviveRestart ==
    [][~db /\ db' /\ request'.route \in {"predict", "models"} => table' = file]_vars

(* C27: an upload that fails leaves the store unchanged: the rows queries
   see and the rows of the database file are those of before.  Refuted: the
   records inserted before the failure stay in the open database. *)
C27_FailedUploadLeavesStore ==
    [][response'.route = "upload" /\ response'.status = 500 =>
          StoredRows' = StoredRows /\ file' = file]_vars

(* the 24 statistics of a CSV record: mean, stdev, p05, p50, p80, p95, p99
   and p999 of ttft, user_tps and e2e *)
CsvStatistics ==
    Range(TtftMetrics) \cup Range(TpsMetrics) \cup Range(E2eRegressionMetrics)
    \cup {"e2e_mean"}

(* C28: after an upload every record has a stored row that carries, for each
   of the 24 statistics, the uploaded value.  Refuted: the INSERT names no
   p05, p80 or p999 column, which stay NULL. *)
C28_UploadRoundTrip ==
    response.route = "upload" /\ response.status = 200 =>
        \A i \in 1..Len(request.records) : \A m \in CsvStatistics :
            \E r \in table :
                /\ r.benchmark_id = response.benchmark_id
                /\ r.line = i
                /\ r.col[m] = request.records[i].col[m]

(* C29: deleteBenchmark(id) removes exactly the stored rows whose
   benchmark_id is id and returns their number, which the route answers with
   200; the other rows are unchanged; when no row has the id the store is
   unchanged and the route answers 404.  Refuted by a delete that is the first
   database access of a process: getDatabase empties the table. *)
C29_DeleteFrame ==
    [][request'.route = "delete" =>
          LET hit == {r \in StoredRows : r.benchmark_id = request'.id}
          IN  /\ StoredRows' = StoredRows \ hit
              /\ file' = StoredRows'
              /\ response' = IF hit = {}
                             THEN [route |-> "delete", status |-> 404]
                             ELSE [route |-> "delete", status |-> 200,
                                   deleted |-> Cardinality(hit)]]_vars

(* C30: a linear or polynomial prediction for a request without a traffic
   level reports an e2e_mean that is at least its ttft_mean, whether the
   generation time came from the predicted rate or from the fallback for a
   rate that is not positive *)
C30_E2EAtLeastTtft ==
    (Predicted /\ IsNull(request.body.traffic_level)
        /\ ResultMethod \in LinearMethods \cup PolynomialMethods)
    => Leq(Predictions["ttft_mean"], Predictions["e2e_mean"])

(* a linear or polynomial answer without a traffic level whose predicted rate
   is zero, so that the generation time is the fallback's *)
C30_Witness ==
    /\ Predicted
    /\ IsNull(request.body.traffic_level)
    /\ ResultMethod \in LinearMethods \cup PolynomialMethods
    /\ Predictions["user_tps_mean"] = Zero
    /\ Lt(Predictions["ttft_mean"], Predictions["e2e_mean"])

(* C26: getDatabase is one Database for the whole process however the calls
   interleave: every upload that has got a Database holds the one `db` refers
   to, which is the one saveDatabase writes; no second Database was ever
   initialized; and the rows of every finished upload are in that Database and
   in the file *)
C26_SingleInstance ==
    /\ \A r \in DOMAIN calls : calls[r].pc \in {"opened", "done"} => calls[r].handle = 0
    /\ orphans = <<>>
    /\ \A r \in DOMAIN calls :
          calls[r].pc = "done" =>
              /\ InsertedRows(r, calls[r].records) \subseteq table
              /\ InsertedRows(r, calls[r].records) \subseteq file

====
